---------------------------- MODULE Spec2Model ----------------------------
(***************************************************************************)
(* Model of src/app.py: the Excel -> DAT converter (main and the helpers   *)
(* clean_cell_value, read_task_info, read_business_info,                   *)
(* process_business_data).                                                 *)
(*                                                                         *)
(* Text is modelled as a sequence of one-character strings, so that        *)
(* str.strip, str.replace, "\n".join, json.loads and str.encode are        *)
(* computed character by character.  A few multi-character atoms stand for *)
(* the fixed Chinese literals of the source, which never meet whitespace   *)
(* or JSON handling (sheet names, column names, the default form).         *)
(***************************************************************************)
EXTENDS Integers, Sequences, FiniteSets, TLC

VARIABLES
    wb,             \* the uploaded workbook (uploaded_file), fixed during a run
    pc,             \* position of main
    logs,           \* logs (app.py:182)
    credit_code,    \* app.py:198
    data_date,      \* app.py:198
    business_list,  \* app.py:204-206
    check_group,    \* app.py:211-215
    fi,             \* index of the form the loop of app.py:222 is at
    ri,             \* index of the check row the loop of app.py:93 is at
    check_rows,     \* app.py:90
    dat_strings,    \* app.py:83
    dat_src,        \* history: for every element of dat_strings, the index of its check row
    all_zip_bytes,  \* app.py:221
    now,            \* the wall clock read by datetime.datetime.now()
    shown           \* what the page shows: log placeholder, download button, st.error

vars == <<wb, pc, logs, credit_code, data_date, business_list, check_group, fi, ri,
          check_rows, dat_strings, dat_src, all_zip_bytes, now, shown>>

-----------------------------------------------------------------------------
(* Bounds of the model *)

MaxCatalogRows == 3
MaxCheckRows == 3

-----------------------------------------------------------------------------
(* Text *)

\* pandas' missing value (an empty cell read with dtype=str)
NaN == <<"<NaN>">>

pd_isna(value) == value = NaN

\* the characters str.strip() removes (those the inputs use)
Whitespace == {" ", "\n", "\t"}

RECURSIVE lstrip(_)
lstrip(s) == IF s # <<>> /\ Head(s) \in Whitespace THEN lstrip(Tail(s)) ELSE s

RECURSIVE rstrip(_)
rstrip(s) ==
    IF s # <<>> /\ s[Len(s)] \in Whitespace THEN rstrip(SubSeq(s, 1, Len(s) - 1)) ELSE s

strip(s) == rstrip(lstrip(s))

clean_cell_value(value) ==
    IF pd_isna(value) \/ value = <<>> THEN <<>> ELSE strip(value)

\* sep.join(parts)
RECURSIVE join(_, _)
join(sep, parts) ==
    IF parts = <<>> THEN <<>>
    ELSE IF Len(parts) = 1 THEN parts[1]
    ELSE parts[1] \o sep \o join(sep, Tail(parts))

\* s.replace(ch, "")
RECURSIVE remove_char(_, _)
remove_char(s, ch) ==
    IF s = <<>> THEN <<>>
    ELSE IF Head(s) = ch THEN remove_char(Tail(s), ch)
    ELSE <<Head(s)>> \o remove_char(Tail(s), ch)

\* s.split("\n")
RECURSIVE split_lines(_)
split_lines(s) ==
    IF \A k \in 1..Len(s) : s[k] # "\n" THEN <<s>>
    ELSE LET k == CHOOSE k \in 1..Len(s) :
                      s[k] = "\n" /\ \A m \in 1..(k - 1) : s[m] # "\n"
         IN <<SubSeq(s, 1, k - 1)>> \o split_lines(SubSeq(s, k + 1, Len(s)))

DigitChars == <<"0", "1", "2", "3", "4", "5", "6", "7", "8", "9">>

\* str(n) of a natural number
RECURSIVE int_str(_)
int_str(n) == IF n < 10 THEN <<DigitChars[n + 1]>>
              ELSE int_str(n \div 10) \o <<DigitChars[(n % 10) + 1]>>

\* str.encode("utf-8"): one byte per ASCII character, two for U+00E9
utf8_char(ch) == IF ch = "e'" THEN <<"c3", "a9">> ELSE <<ch>>

RECURSIVE encode_utf8(_)
encode_utf8(s) == IF s = <<>> THEN <<>> ELSE utf8_char(Head(s)) \o encode_utf8(Tail(s))

\* hashlib.md5(...).hexdigest(): a non-empty token without whitespace that is a
\* function of the bytes (the digest itself is not computed)
hex_byte(b) == CASE b = "\n" -> "0a" [] b = " " -> "20" [] b = "\t" -> "09" [] OTHER -> b

hexdigest(bytes_data) == <<"md5:">> \o [k \in 1..Len(bytes_data) |-> hex_byte(bytes_data[k])]

get_bytes_md5(bytes_data) == IF bytes_data = <<>> THEN <<>> ELSE hexdigest(bytes_data)

-----------------------------------------------------------------------------
(* json.loads *)

\* Python values: t is the type, items the elements of a list or the
\* (key, value) items of a dict in insertion order, s the text of a str or int
PyVal(t, items, s) == [t |-> t, items |-> items, s |-> s]
PyNone == PyVal("NoneType", <<>>, <<>>)
NoParse == [ok |-> FALSE, v |-> PyNone, i |-> 0]
Parsed(v, i) == [ok |-> TRUE, v |-> v, i |-> i]

JsonWs == {" ", "\n", "\t"}
Digits == {"0", "1", "2", "3", "4", "5", "6", "7", "8", "9"}

RECURSIVE skip_ws(_, _)
skip_ws(s, i) == IF i <= Len(s) /\ s[i] \in JsonWs THEN skip_ws(s, i + 1) ELSE i

\* index of the closing quote of the string whose first character is at i, or 0
\* when the string does not end or holds a control character (strict mode)
RECURSIVE string_end(_, _)
string_end(s, i) ==
    IF i > Len(s) \/ s[i] \in {"\n", "\t", "\\"} THEN 0
    ELSE IF s[i] = "\"" THEN i
    ELSE string_end(s, i + 1)

RECURSIVE digits_end(_, _)
digits_end(s, i) == IF i <= Len(s) /\ s[i] \in Digits THEN digits_end(s, i + 1) ELSE i

\* dict[k] = v: a repeated key keeps its place and takes the later value
dict_set(items, k, v) ==
    IF \E n \in 1..Len(items) : items[n].k = k
    THEN [n \in 1..Len(items) |-> IF items[n].k = k THEN [k |-> k, v |-> v] ELSE items[n]]
    ELSE Append(items, [k |-> k, v |-> v])

RECURSIVE parse_value(_, _)
RECURSIVE parse_members(_, _, _)
RECURSIVE parse_elements(_, _, _)

parse_string(s, i) ==
    LET e == string_end(s, i + 1)
    IN IF e = 0 THEN NoParse ELSE Parsed(PyVal("str", <<>>, SubSeq(s, i + 1, e - 1)), e + 1)

parse_number(s, i) ==
    LET e == digits_end(s, i)
    IN IF s[i] = "0" /\ e > i + 1 THEN Parsed(PyVal("int", <<>>, <<"0">>), i + 1)
       ELSE Parsed(PyVal("int", <<>>, SubSeq(s, i, e - 1)), e)

\* the members of an object after "{" or ",": i is at the next key
parse_members(s, i, items) ==
    LET a == skip_ws(s, i)
    IN IF a > Len(s) \/ s[a] # "\"" THEN NoParse
       ELSE LET key == parse_string(s, a)
                b == skip_ws(s, key.i)
            IN IF ~key.ok \/ b > Len(s) \/ s[b] # ":" THEN NoParse
               ELSE LET val == parse_value(s, b + 1)
                        c == skip_ws(s, val.i)
                        more == dict_set(items, key.v.s, val.v)
                    IN IF ~val.ok \/ c > Len(s) THEN NoParse
                       ELSE IF s[c] = "}" THEN Parsed(PyVal("dict", more, <<>>), c + 1)
                       ELSE IF s[c] = "," THEN parse_members(s, c + 1, more)
                       ELSE NoParse

\* the elements of an array after "[" or ",": i is at the next element
parse_elements(s, i, items) ==
    LET val == parse_value(s, i)
        c == skip_ws(s, val.i)
    IN IF ~val.ok \/ c > Len(s) THEN NoParse
       ELSE IF s[c] = "]" THEN Parsed(PyVal("list", Append(items, val.v), <<>>), c + 1)
       ELSE IF s[c] = "," THEN parse_elements(s, c + 1, Append(items, val.v))
       ELSE NoParse

parse_value(s, i) ==
    LET a == skip_ws(s, i)
    IN IF a > Len(s) THEN NoParse
       ELSE IF s[a] = "{" THEN
            LET b == skip_ws(s, a + 1)
            IN IF b <= Len(s) /\ s[b] = "}" THEN Parsed(PyVal("dict", <<>>, <<>>), b + 1)
               ELSE parse_members(s, a + 1, <<>>)
       ELSE IF s[a] = "[" THEN
            LET b == skip_ws(s, a + 1)
            IN IF b <= Len(s) /\ s[b] = "]" THEN Parsed(PyVal("list", <<>>, <<>>), b + 1)
               ELSE parse_elements(s, a + 1, <<>>)
       ELSE IF s[a] = "\"" THEN parse_string(s, a)
       ELSE IF s[a] \in Digits THEN parse_number(s, a)
       ELSE IF a + 3 <= Len(s) /\ SubSeq(s, a, a + 3) = <<"n", "u", "l", "l">>
            THEN Parsed(PyNone, a + 4)
       ELSE NoParse

\* json.loads(text): ok = FALSE is json.JSONDecodeError (also for extra data
\* after the value)
json_loads(text) ==
    LET r == parse_value(text, 1)
    IN IF r.ok /\ skip_ws(text, r.i) > Len(text) THEN [ok |-> TRUE, v |-> r.v]
       ELSE [ok |-> FALSE, v |-> PyNone]

\* bool(v)
truthy(v) ==
    CASE v.t \in {"dict", "list"} -> v.items # <<>>
      [] v.t = "str" -> v.s # <<>>
      [] v.t = "int" -> v.s # <<"0">>
      [] OTHER -> FALSE

\* repr(v) and str(v)
RECURSIVE py_repr(_)
py_repr(v) ==
    CASE v.t = "str" -> <<"'">> \o v.s \o <<"'">>
      [] v.t = "int" -> v.s
      [] v.t = "list" ->
            <<"[">> \o join(<<",", " ">>, [n \in 1..Len(v.items) |-> py_repr(v.items[n])])
                    \o <<"]">>
      [] v.t = "dict" ->
            <<"{">> \o join(<<",", " ">>,
                            [n \in 1..Len(v.items) |->
                                <<"'">> \o v.items[n].k \o <<"'", ":", " ">>
                                        \o py_repr(v.items[n].v)])
                    \o <<"}">>
      [] OTHER -> <<"N", "o", "n", "e">>

py_str(v) == IF v.t = "str" THEN v.s ELSE py_repr(v)

-----------------------------------------------------------------------------
(* The workbook: sheets are tables read by pd.read_excel(..., header=1,     *)
(* dtype=str): a sequence of column names and a sequence of rows of cells.  *)

TaskSheet == <<"TaskSheet">>            \* "任务说明"
BusinessSheet == <<"BusinessSheet">>    \* "业务说明"
CheckSheet == <<"CheckSheet">>          \* "校验结果"
SamplePrefix == <<"SampleData_">>       \* "示例数据_"

CreditCodeCol == "CreditCode"           \* "社会统一信用代码"
DataDateCol == "DataDate"               \* "数据日期"
FormNameCol == "BusinessFormName"       \* "业务表单名称"
FormEnNameCol == "BusinessFormEnName"   \* "业务表单英文名称"
CheckFormCol == "FormName"              \* "表单名称"
HelperCol == "C_cleaned"                \* "C列_清洗后"

DefaultFormName == <<"DefaultForm">>    \* "默认表单"
DefaultFormEnName == <<"D", "e", "f", "a", "u", "l", "t">>

Table(columns, rows) == [columns |-> columns, rows |-> rows]

\* df.empty
df_empty(df) == Len(df.columns) = 0 \/ Len(df.rows) = 0

\* position of the column called name (the first one)
col_index(df, name) ==
    CHOOSE c \in 1..Len(df.columns) :
        df.columns[c] = name /\ \A d \in 1..(c - 1) : df.columns[d] # name

has_col(df, name) == \E c \in 1..Len(df.columns) : df.columns[c] = name

\* excel_file.sheet_names
sheet_names(book) == {sh.name : sh \in book.sheets}

\* pd.read_excel(excel_file, sheet_name=name, ...): ok = FALSE is the
\* ValueError pandas raises for a worksheet that does not exist
read_excel(book, name) ==
    IF name \in sheet_names(book)
    THEN [ok |-> TRUE, df |-> (CHOOSE sh \in book.sheets : sh.name = name).df]
    ELSE [ok |-> FALSE, df |-> Table(<<>>, <<>>)]

\* the positions k, k+1, ... at which the Boolean sequence flags is TRUE, in order
RECURSIVE select_idx(_, _)
select_idx(flags, k) ==
    IF k > Len(flags) THEN <<>>
    ELSE (IF flags[k] THEN <<k>> ELSE <<>>) \o select_idx(flags, k + 1)

-----------------------------------------------------------------------------
(* read_task_info, read_business_info *)

Raise(msg) == [ok |-> FALSE, exc |-> msg]

read_task_info(df_task) ==
    IF df_empty(df_task) THEN Raise("ValueError: task sheet has no data")
    ELSE IF ~has_col(df_task, CreditCodeCol) \/ ~has_col(df_task, DataDateCol)
    THEN Raise("ValueError: task sheet lacks a required column")
    ELSE LET first_row == df_task.rows[1]
             code == clean_cell_value(first_row[col_index(df_task, CreditCodeCol)])
             data_date_raw == clean_cell_value(first_row[col_index(df_task, DataDateCol)])
             date == strip(remove_char(data_date_raw, "-"))
         IN IF date = <<>> THEN Raise("ValueError: data date empty")
            ELSE [ok |-> TRUE, exc |-> "", credit_code |-> code, data_date |-> date]

\* DataFrame.drop_duplicates(): a row stays when no earlier row equals it
drop_duplicates(recs) ==
    LET keep == select_idx([k \in 1..Len(recs) |->
                               \A m \in 1..(k - 1) : recs[m] # recs[k]], 1)
    IN [n \in 1..Len(keep) |-> recs[keep[n]]]

read_business_info(df_business) ==
    IF df_empty(df_business) THEN [ok |-> TRUE, exc |-> "", list |-> <<>>]
    ELSE IF ~has_col(df_business, FormNameCol) \/ ~has_col(df_business, FormEnNameCol)
    THEN Raise("ValueError: business sheet lacks a required column")
    ELSE LET n == col_index(df_business, FormNameCol)
             e == col_index(df_business, FormEnNameCol)
             recs == [k \in 1..Len(df_business.rows) |->
                         [name |-> df_business.rows[k][n], en |-> df_business.rows[k][e]]]
         IN [ok |-> TRUE, exc |-> "", list |-> drop_duplicates(recs)]

-----------------------------------------------------------------------------
(* process_business_data *)

Log(kind, msg) == [kind |-> kind, msg |-> msg]

business_name_of(business) == clean_cell_value(business.name)
business_en_name_of(business) == clean_cell_value(business.en)

\* df_check.groupby("表单名称", dropna=False): the key values that occur
group_keys(df_check) ==
    {df_check.rows[k][col_index(df_check, CheckFormCol)] : k \in 1..Len(df_check.rows)}

\* check_group.get_group(name): the rows of the group, in the table's order
get_group(group, name) ==
    LET c == col_index(group.df, CheckFormCol)
        idx == select_idx([k \in 1..Len(group.df.rows) |-> group.df.rows[k][c] = name], 1)
    IN [n \in 1..Len(idx) |-> group.df.rows[idx[n]]]

\* check_group is None or business_name not in check_group.groups
no_group(group, name) == ~group.some \/ name \notin group_keys(group.df)

\* check_row.iloc[k] if len(check_row) > k else "" (k counts from 0)
iloc_or_empty(row, k) == IF Len(row) > k THEN row[k + 1] ELSE <<>>

part1_of(check_row) ==
    LET c_val == clean_cell_value(iloc_or_empty(check_row, 2))
        i_val == clean_cell_value(iloc_or_empty(check_row, 8))
        g_val == clean_cell_value(iloc_or_empty(check_row, 6))
    IN <<"0", "1", "|">> \o c_val \o <<"|">> \o i_val \o <<"|">> \o g_val \o <<"|">>

\* df[name] = values: a new column goes last, an existing one is overwritten
set_column(df, name, values) ==
    IF has_col(df, name)
    THEN Table(df.columns,
               [k \in 1..Len(df.rows) |->
                   [c \in 1..Len(df.columns) |->
                       IF df.columns[c] = name THEN values[k] ELSE df.rows[k][c]]])
    ELSE Table(Append(df.columns, name),
               [k \in 1..Len(df.rows) |-> Append(df.rows[k], values[k])])

\* df.drop(columns=[name])
drop_column(df, name) ==
    LET keep == select_idx([c \in 1..Len(df.columns) |-> df.columns[c] # name], 1)
    IN Table([n \in 1..Len(keep) |-> df.columns[keep[n]]],
             [k \in 1..Len(df.rows) |-> [n \in 1..Len(keep) |-> df.rows[k][keep[n]]]])

\* df[df[name] == value]
filter_eq(df, name, value) ==
    LET c == col_index(df, name)
        idx == select_idx([k \in 1..Len(df.rows) |-> df.rows[k][c] = value], 1)
    IN Table(df.columns, [n \in 1..Len(idx) |-> df.rows[idx[n]]])

\* matched_rows.iloc[-1]
last_row_of(df) == df.rows[Len(df.rows)]

\* matched_rows.iloc[0]
first_row_of(df) == df.rows[1]

\* lines 148-150: the cells from column D on, cleaned and joined
part2_of(target_row) ==
    LET d_after_data == IF Len(target_row) > 3 THEN SubSeq(target_row, 4, Len(target_row))
                        ELSE <<>>
    IN join(<<"@", "&", "@">>,
            [k \in 1..Len(d_after_data) |-> clean_cell_value(d_after_data[k])])

Skip(msg) == [kind |-> "skip", log |-> <<Log("warn", msg)>>, rec |-> <<>>, exc |-> ""]
Emit(log, rec) == [kind |-> "append", log |-> log, rec |-> rec, exc |-> ""]
Throw(msg) == [kind |-> "raise", log |-> <<>>, rec |-> <<>>, exc |-> msg]

\* lines 124-156: the sample sheet is read again for every check row
sample_step(book, business_name, part1, target_row_num) ==
    LET got == read_excel(book, SamplePrefix \o business_name)
        df_sample == got.df
    IN IF ~got.ok THEN Emit(<<Log("warn", "reading the sample data failed")>>, part1)
       ELSE IF df_empty(df_sample) THEN Skip("sample sheet has no data")
       ELSE IF Len(df_sample.columns) < 3 THEN Skip("sample sheet lacks column C")
       ELSE LET with_c == set_column(df_sample, HelperCol,
                              [k \in 1..Len(df_sample.rows) |->
                                  clean_cell_value(df_sample.rows[k][3])])
                matched_rows == filter_eq(with_c, HelperCol, target_row_num)
            IN IF df_empty(matched_rows) THEN Skip("no sample row with that C value")
               ELSE Emit(<<>>, part1 \o part2_of(first_row_of(
                                            drop_column(matched_rows, HelperCol))))

\* lines 94-156: the body of the loop over the check rows, for one row
process_row(book, business_name, check_row) ==
    LET part1 == part1_of(check_row)
        j_val == clean_cell_value(iloc_or_empty(check_row, 9))
        parsed == json_loads(j_val)
        json_obj == parsed.v
    IN IF j_val = <<>> THEN Skip("column J has no JSON")
       ELSE IF ~parsed.ok THEN Skip("JSON does not parse")
       ELSE IF ~truthy(json_obj) THEN Skip("JSON is an empty object")
       ELSE IF json_obj.t # "dict" THEN Throw("AttributeError: object has no attribute keys")
       ELSE LET json_value == json_obj.items[1].v
            IN IF json_value.t # "list" \/ Len(json_value.items) = 0
               THEN Skip("JSON value is not a non-empty array")
               ELSE sample_step(book, business_name, part1,
                                strip(py_str(json_value.items[1])))

-----------------------------------------------------------------------------
(* main *)

None == [some |-> FALSE, df |-> Table(<<>>, <<>>)]
Some(df) == [some |-> TRUE, df |-> df]

NoPage == [log |-> <<>>, downloads |-> <<>>, errors |-> <<>>]

\* the instants datetime.datetime.now() may return, in seconds
Times == {0, 1}

\* strftime("%Y-%m-%d %H:%M:%S") of an instant of the minute 2026-01-01 00:00
strftime(t) ==
    <<"2", "0", "2", "6", "-", "0", "1", "-", "0", "1", " ", "0", "0", ":", "0", "0", ":">>
        \o (IF t < 10 THEN <<"0">> ELSE <<>>) \o int_str(t)

\* an except clause that also offers what was packed before the failure
HandleException_partial(cur, msg) ==
    /\ logs' = Append(cur, Log("error", msg))
    /\ shown' = [shown EXCEPT !.log = Append(cur, Log("error", msg)),
                              !.errors = Append(@, msg),
                              !.downloads =
                                  Append(@, [k \in 1..Len(all_zip_bytes) |->
                                                [name |-> all_zip_bytes[k].name,
                                                 data |-> all_zip_bytes[k]]])]
    /\ pc' = "failed"

\* lines 278-281: the except clause of main; cur is logs at the raise
HandleException(cur, msg) ==
    /\ logs' = Append(cur, Log("error", msg))
    /\ shown' = [shown EXCEPT !.log = Append(cur, Log("error", msg)),
                              !.errors = Append(@, msg)]
    /\ pc' = "failed"

\* lines 186-194
OpenWorkbook ==
    /\ pc = "start"
    /\ IF ~wb.valid THEN HandleException(logs, "pd.ExcelFile: not a workbook")
       ELSE LET cur == Append(logs, Log("info", "read the workbook"))
            IN IF ~({TaskSheet, BusinessSheet} \subseteq sheet_names(wb))
               THEN HandleException(cur, "ValueError: a required sheet is missing")
               ELSE /\ logs' = cur
                    /\ pc' = "task"
                    /\ UNCHANGED shown
    /\ UNCHANGED <<wb, credit_code, data_date, business_list, check_group, fi, ri,
                   check_rows, dat_strings, dat_src, all_zip_bytes, now>>

\* lines 197-200
ReadTask ==
    /\ pc = "task"
    /\ LET got == read_task_info(read_excel(wb, TaskSheet).df)
       IN IF ~got.ok
          THEN /\ HandleException(logs, got.exc)
               /\ UNCHANGED <<credit_code, data_date>>
          ELSE /\ credit_code' = got.credit_code
               /\ data_date' = got.data_date
               /\ logs' = logs \o <<Log("info", "credit code"), Log("info", "data date")>>
               /\ pc' = "business"
               /\ UNCHANGED shown
    /\ UNCHANGED <<wb, business_list, check_group, fi, ri, check_rows, dat_strings,
                   dat_src, all_zip_bytes, now>>

\* lines 203-207
ReadBusiness ==
    /\ pc = "business"
    /\ LET got == read_business_info(read_excel(wb, BusinessSheet).df)
       IN IF ~got.ok
          THEN /\ HandleException(logs, got.exc)
               /\ UNCHANGED business_list
          ELSE /\ business_list' =
                      (IF got.list = <<>>
                       THEN <<[name |-> DefaultFormName, en |-> DefaultFormEnName]>>
                       ELSE got.list)
               /\ logs' = Append(logs, Log("info", "business forms read"))
               /\ pc' = "check"
               /\ UNCHANGED shown
    /\ UNCHANGED <<wb, credit_code, data_date, check_group, fi, ri, check_rows,
                   dat_strings, dat_src, all_zip_bytes, now>>

\* lines 210-218
ReadCheck ==
    /\ pc = "check"
    /\ LET got == read_excel(wb, CheckSheet)
       IN IF ~got.ok
          THEN /\ check_group' = None
               /\ logs' = logs
          ELSE IF has_col(got.df, CheckFormCol)
          THEN /\ check_group' = (IF ~df_empty(got.df) THEN Some(got.df) ELSE None)
               /\ logs' = Append(logs, Log("info", "check rows grouped by form name"))
          ELSE /\ check_group' = None
               /\ logs' = Append(logs, Log("warn", "check sheet lacks the form name column"))
    /\ fi' = 1
    /\ pc' = "form"
    /\ UNCHANGED <<wb, credit_code, data_date, business_list, ri, check_rows, dat_strings,
                   dat_src, all_zip_bytes, now, shown>>

FormHeader == Log("info", "--- business form ---")

\* lines 222-224 and 78-91: the next form; process_business_data up to its loop
BeginForm ==
    /\ pc = "form"
    /\ fi <= Len(business_list)
    /\ LET business_name == business_name_of(business_list[fi])
       IN IF no_group(check_group, business_name)
          THEN /\ logs' = logs \o <<FormHeader, Log("warn", "no matching check rows")>>
               /\ check_rows' = <<>>
               /\ pc' = "pack"
          ELSE /\ logs' = logs \o <<FormHeader, Log("info", "found matching check rows")>>
               /\ check_rows' = get_group(check_group, business_name)
               /\ pc' = "row"
    /\ dat_strings' = <<>>
    /\ dat_src' = <<>>
    /\ ri' = 1
    /\ UNCHANGED <<wb, credit_code, data_date, business_list, check_group, fi,
                   all_zip_bytes, now, shown>>

\* a list that grows at its head
list_prepend(list, x) == <<x>> \o list

\* dat_strings.append(full_str)
list_append(list, x) == Append(list, x)

\* lines 93-156: one turn of the loop over the check rows
ProcessRow ==
    /\ pc = "row"
    /\ ri <= Len(check_rows)
    /\ LET out == process_row(wb, business_name_of(business_list[fi]), check_rows[ri])
       IN IF out.kind = "raise"
          THEN /\ HandleException(logs, out.exc)
               /\ UNCHANGED <<ri, dat_strings, dat_src>>
          ELSE /\ logs' = logs \o out.log
               /\ dat_strings' =
                      (IF out.kind = "append" THEN list_append(dat_strings, out.rec)
                       ELSE dat_strings)
               /\ dat_src' =
                      (IF out.kind = "append" THEN list_append(dat_src, ri) ELSE dat_src)
               /\ ri' = ri + 1
               /\ UNCHANGED <<pc, shown>>
    /\ UNCHANGED <<wb, credit_code, data_date, business_list, check_group, fi, check_rows,
                   all_zip_bytes, now>>

\* lines 158-159
FinishRows ==
    /\ pc = "row"
    /\ ri > Len(check_rows)
    /\ logs' = Append(logs, Log("info", "form processed"))
    /\ pc' = "pack"
    /\ UNCHANGED <<wb, credit_code, data_date, business_list, check_group, fi, ri,
                   check_rows, dat_strings, dat_src, all_zip_bytes, now, shown>>

\* line 232
base_filename_of(code, en_name, date) ==
    code \o <<"_">> \o en_name \o <<"_", "C", "H", "K", "_">> \o date

\* line 237: len([s for s in dat_strings if s.strip()])
line_count_of(strings) == Cardinality({k \in 1..Len(strings) : strip(strings[k]) # <<>>})

\* lines 228-256: the data file, the log file and the form's ZIP
pack_form(code, en_name, date, strings, t) ==
    LET dat_content == join(<<"\n">>, strings)
        dat_bytes == encode_utf8(dat_content)
        base_filename == base_filename_of(code, en_name, date)
        dat_filename == base_filename \o <<".", "d", "a", "t">>
        log_content == join(<<"\n">>, <<dat_filename,
                                        get_bytes_md5(dat_bytes),
                                        int_str(Len(dat_bytes)),
                                        strftime(t),
                                        int_str(line_count_of(strings))>>)
    IN [name |-> base_filename \o <<".", "z", "i", "p">>,
        entries |-> <<[name |-> dat_filename, data |-> dat_bytes],
                      [name |-> base_filename \o <<".", "l", "o", "g">>,
                       data |-> encode_utf8(log_content)]>>]

\* lines 227-258
PackForm ==
    /\ pc = "pack"
    /\ \E t \in Times :
        /\ t >= now
        /\ now' = t
        /\ all_zip_bytes' =
               Append(all_zip_bytes,
                      pack_form(credit_code, business_en_name_of(business_list[fi]),
                                data_date, dat_strings, t))
    /\ logs' = Append(logs, Log("info", "ZIP built"))
    /\ fi' = fi + 1
    /\ pc' = "form"
    /\ UNCHANGED <<wb, credit_code, data_date, business_list, check_group, ri, check_rows,
                   dat_strings, dat_src, shown>>

\* lines 261-264: ZipFile.writestr adds an entry for every call, also under
\* a name the archive already holds
total_zip_of(zips) == [k \in 1..Len(zips) |-> [name |-> zips[k].name, data |-> zips[k]]]

\* lines 261-276
Aggregate ==
    /\ pc = "form"
    /\ fi > Len(business_list)
    /\ logs' = Append(logs, Log("info", "all files processed"))
    /\ shown' = [shown EXCEPT !.log = logs',
                              !.downloads = Append(@, total_zip_of(all_zip_bytes))]
    /\ pc' = "done"
    /\ UNCHANGED <<wb, credit_code, data_date, business_list, check_group, fi, ri,
                   check_rows, dat_strings, dat_src, all_zip_bytes, now>>

-----------------------------------------------------------------------------
(* The workbooks a run may be given *)

\* all sequences over S of length at most n
RECURSIVE SeqUpTo(_, _)
SeqUpTo(S, n) ==
    IF n = 0 THEN {<<>>}
    ELSE LET shorter == SeqUpTo(S, n - 1)
         IN shorter \cup {Append(q, x) : q \in {r \in shorter : Len(r) = n - 1}, x \in S}

Sheet(name, df) == [name |-> name, df |-> df]
Workbook(sheets) == [valid |-> TRUE, sheets |-> sheets]

NameA == <<"A">>
NameAPadded == <<"A", " ">>
NameB == <<"B">>
EnX == <<"X">>
EnY == <<"Y">>

\* the task sheet (app.py:197)
TaskGood ==
    Table(<<CreditCodeCol, DataDateCol>>, <<<<<<" ", "9", "1">>, <<"2", "4", "-", "0", "1">>>>>>)
TaskTables ==
    { TaskGood,
      Table(<<CreditCodeCol, DataDateCol>>, <<>>),
      Table(<<CreditCodeCol>>, <<<<<<"9", "1">>>>>>),
      Table(<<CreditCodeCol, DataDateCol>>, <<<<<<"9", "1">>, <<"-", " ", "-">>>>>>),
      Table(<<DataDateCol, CreditCodeCol>>, <<<<NaN, <<"9", "1">>>>>>) }

\* the business sheet (app.py:203): columns cols, one row per (name, code) pair
BusinessTable(cols, pairs) ==
    Table(cols,
          [k \in 1..Len(pairs) |->
              [c \in 1..Len(cols) |->
                  IF cols[c] = FormNameCol THEN pairs[k][1]
                  ELSE IF cols[c] = FormEnNameCol THEN pairs[k][2]
                  ELSE NaN]])

BothCols == <<FormNameCol, FormEnNameCol>>
BusinessColumns ==
    { BothCols, <<FormEnNameCol, "Remark", FormNameCol>>, <<FormNameCol>>,
      <<FormEnNameCol>>, <<"Remark">> }

CatalogPairs == { <<NameA, EnX>>, <<NameAPadded, EnX>>, <<NameB, EnY>>, <<NameB, EnX>> }

BaseCatalog == BusinessTable(BothCols, << <<NameA, EnX>>, <<NameB, EnY>> >>)

\* the check sheet (app.py:213): column A is the form name, C, G, I and J are
\* the cells process_business_data reads by position
CheckColumns == <<CheckFormCol, "B", "C", "D", "E", "F", "G", "H", "I", "J">>
CheckRow(name, c, j) == <<name, NaN, c, NaN, NaN, NaN, <<"g">>, NaN, <<"i", " ">>, j>>

Quoted(s) == <<"\"">> \o s \o <<"\"">>
JsonObject(key, value) == <<"{">> \o Quoted(key) \o <<":">> \o value \o <<"}">>
JsonArray(element) == <<"[">> \o element \o <<"]">>

JRows3 == JsonObject(<<"r">>, JsonArray(Quoted(<<"3">>)))              \* {"r":["3"]}
JInt3 == <<" ">> \o JsonObject(<<"r">>, JsonArray(<<" ", "3">>))       \* ' {"r":[ 3]}'
JPadded4 == JsonObject(<<"r">>, JsonArray(Quoted(<<" ", "4", " ">>)))  \* {"r":[" 4 "]}
JNoMatch == JsonObject(<<"r">>, JsonArray(Quoted(<<"9">>)))            \* {"r":["9"]}
JTwoKeys ==                                                  \* {"r":["4"],"s":["3"]}
    <<"{">> \o Quoted(<<"r">>) \o <<":">> \o JsonArray(Quoted(<<"4">>)) \o <<",">>
            \o Quoted(<<"s">>) \o <<":">> \o JsonArray(Quoted(<<"3">>)) \o <<"}">>
JEmptyArray == JsonObject(<<"r">>, <<"[", "]">>)                       \* {"r":[]}
JScalar == JsonObject(<<"r">>, Quoted(<<"3">>))                        \* {"r":"3"}
JEmptyObject == <<"{", "}">>                                           \* {}
JMalformed == <<"{", "n", "o", "t">>                                   \* {not
JTopArray == JsonArray(<<"1">>)                                        \* [1]
JTopNumber == <<"5">>                                                  \* 5
JTopString == Quoted(<<"s">>)                                          \* "s"

JTexts == { NaN, JRows3, JInt3, JPadded4, JNoMatch, JTwoKeys, JEmptyArray, JScalar,
            JEmptyObject, JMalformed, JTopArray, JTopNumber, JTopString }

CheckRowKinds == {CheckRow(NameA, <<"c">>, j) : j \in JTexts}

\* the row kinds that workbooks with several check rows are built from: two that
\* give a record, one that is skipped, one that raises, and two of form B
SeqRowKinds ==
    { CheckRow(NameA, <<"c">>, JRows3),
      CheckRow(NameA, <<"a", "\n", "b">>, JPadded4),
      CheckRow(NameA, <<"c">>, JNoMatch),
      CheckRow(NameA, <<"c">>, JTopArray),
      CheckRow(NameB, <<"c">>, JRows3),
      CheckRow(NameB, <<"c">>, JTopArray) }

BaseCheck ==
    Table(CheckColumns, <<CheckRow(NameA, <<"c">>, JRows3), CheckRow(NameB, <<"c">>, JRows3)>>)

CheckVariants ==
    { Table(CheckColumns, <<>>),
      Table(<<"A">> \o Tail(CheckColumns), BaseCheck.rows),
      Table(SubSeq(CheckColumns, 1, 9),
            <<SubSeq(CheckRow(NameA, <<"c">>, JRows3), 1, 9)>>),
      BaseCheck }

\* the sample sheets (app.py:128): column C is the match key, D and later the payload
SampleColumns == <<"A", "B", "C", "D", "E">>
SampleFull ==
    Table(SampleColumns,
          << <<NaN, NaN, <<"4">>, <<"p", "\n", "q">>, <<"e'">>>>,
             <<NaN, NaN, <<"3">>, <<"v", "1">>, <<" ", "v", "2">>>>,
             <<NaN, NaN, <<" ", "3">>, <<"w", "1">>, NaN>> >>)
SampleTables ==
    { SampleFull,
      Table(SampleColumns, <<>>),
      Table(<<"A", "B">>, << <<NaN, <<"3">>>> >>),
      Table(<<"A", "B", "C">>, << <<NaN, NaN, <<"3">>>> >>) }
SampleB == Table(SampleColumns, << <<NaN, NaN, <<"3">>, <<"b", "1">>, <<"b", "2">>>> >>)

SampleSheetA(df) == Sheet(SamplePrefix \o NameA, df)
BaseSamples == {SampleSheetA(SampleFull), Sheet(SamplePrefix \o NameB, SampleB)}

\* workbooks that differ in the sheets present and in the task, business and
\* check tables
SchemaWorkbooks ==
    { Workbook(task \cup business \cup check \cup BaseSamples) :
        task \in {{}} \cup {{Sheet(TaskSheet, df)} : df \in TaskTables},
        business \in {{}} \cup
                   {{Sheet(BusinessSheet, BusinessTable(cols, pairs))} :
                       cols \in BusinessColumns,
                       pairs \in {<<>>, << <<NameA, EnX>> >>}},
        check \in {{}} \cup {{Sheet(CheckSheet, df)} : df \in CheckVariants} }

\* workbooks that differ in the rows of the business catalog
CatalogWorkbooks ==
    { Workbook({Sheet(TaskSheet, TaskGood),
                Sheet(BusinessSheet, BusinessTable(BothCols, pairs))}
               \cup check \cup BaseSamples) :
        pairs \in SeqUpTo(CatalogPairs, MaxCatalogRows),
        check \in {{}, {Sheet(CheckSheet, BaseCheck)}} }

\* workbooks that differ in the check rows and in the sample sheet of form A
RowWorkbooks ==
    { Workbook({Sheet(TaskSheet, TaskGood), Sheet(BusinessSheet, BaseCatalog),
                Sheet(CheckSheet, Table(CheckColumns, rws)),
                Sheet(SamplePrefix \o NameB, SampleB)} \cup sample) :
        rws \in SeqUpTo(SeqRowKinds, MaxCheckRows) \ {<<>>},
        sample \in {{}, {SampleSheetA(SampleFull)}} }
    \cup
    { Workbook({Sheet(TaskSheet, TaskGood), Sheet(BusinessSheet, BaseCatalog),
                Sheet(CheckSheet, Table(CheckColumns, <<rw>>)),
                Sheet(SamplePrefix \o NameB, SampleB)} \cup {SampleSheetA(df)}) :
        rw \in CheckRowKinds, df \in SampleTables }

Workbooks ==
    {[valid |-> FALSE, sheets |-> {}]} \cup SchemaWorkbooks \cup CatalogWorkbooks
        \cup RowWorkbooks

-----------------------------------------------------------------------------
(* The run of main on one uploaded workbook *)

Init ==
    /\ wb \in Workbooks
    /\ pc = "start"
    /\ logs = <<>>
    /\ credit_code = <<>>
    /\ data_date = <<>>
    /\ business_list = <<>>
    /\ check_group = None
    /\ fi = 1
    /\ ri = 1
    /\ check_rows = <<>>
    /\ dat_strings = <<>>
    /\ dat_src = <<>>
    /\ all_zip_bytes = <<>>
    /\ now = 0
    /\ shown = NoPage

Next ==
    \/ OpenWorkbook
    \/ ReadTask
    \/ ReadBusiness
    \/ ReadCheck
    \/ BeginForm
    \/ ProcessRow
    \/ FinishRows
    \/ PackForm
    \/ Aggregate

Spec == Init /\ [][Next]_vars

TypeOK ==
    /\ pc \in {"start", "task", "business", "check", "form", "row", "pack", "done", "failed"}
    /\ fi \in 1..(Len(business_list) + 1)
    /\ ri \in 1..(Len(check_rows) + 1)
    /\ Len(dat_src) = Len(dat_strings)
    /\ now \in Times

-----------------------------------------------------------------------------
(* Vocabulary of the properties *)

\* process_business_data is at work on form fi: dat_strings, dat_src and
\* check_rows are those of that form
InForm == pc \in {"row", "pack"}

\* read_business_info has returned and main has passed line 207
CatalogRead == business_list # <<>>

\* main has passed line 218: check_group is final
GroupsRead == CatalogRead /\ pc # "check"

CurrentName == business_name_of(business_list[fi])

\* the J cell of a check row as process_business_data sees it
JOf(check_row) == clean_cell_value(iloc_or_empty(check_row, 9))

\* the J cell holds a non-empty JSON object whose first value is a non-empty array
JHasTarget(check_row) ==
    LET parsed == json_loads(JOf(check_row))
    IN /\ JOf(check_row) # <<>>
       /\ parsed.ok
       /\ parsed.v.t = "dict"
       /\ parsed.v.items # <<>>
       /\ parsed.v.items[1].v.t = "list"
       /\ parsed.v.items[1].v.items # <<>>

\* the trimmed string form of the first element of that array
TargetOf(check_row) == strip(py_str(json_loads(JOf(check_row)).v.items[1].v.items[1]))

\* the rows of a sample table whose normalized column C equals target
MatchesOf(df, target) ==
    {m \in 1..Len(df.rows) : clean_cell_value(df.rows[m][3]) = target}

\* the sample sheet of the form called name can be read, is non-empty and has
\* at least 3 columns
SampleUsable(name) ==
    LET got == read_excel(wb, SamplePrefix \o name)
    IN got.ok /\ Len(got.df.rows) > 0 /\ Len(got.df.columns) >= 3

SampleOf(name) == read_excel(wb, SamplePrefix \o name).df

\* the lines of a file
LinesOf(bytes_data) == split_lines(bytes_data)

NonBlankLines(bytes_data) ==
    Cardinality({n \in 1..Len(LinesOf(bytes_data)) : strip(LinesOf(bytes_data)[n]) # <<>>})

DatFileOf(zip) == zip.entries[1].data
LogFileOf(zip) == zip.entries[2].data

\* the (name, code) pair of a catalog entry as process_business_data and main use it
UsedPair(business) == <<business_name_of(business), business_en_name_of(business)>>

FormsDistinctAsUsed ==
    \A a, b \in 1..Len(business_list) :
        a < b => UsedPair(business_list[a]) # UsedPair(business_list[b])

\* the messages of the failures raised before any form is processed
SchemaErrors ==
    { "pd.ExcelFile: not a workbook",
      "ValueError: a required sheet is missing",
      "ValueError: task sheet has no data",
      "ValueError: task sheet lacks a required column",
      "ValueError: data date empty",
      "ValueError: business sheet lacks a required column" }

\* the log entries of the k-th form that was begun
FormLogs(k) ==
    LET hdr == select_idx([n \in 1..Len(logs) |-> logs[n] = FormHeader], 1)
    IN SubSeq(logs, hdr[k] + 1, IF k < Len(hdr) THEN hdr[k + 1] - 1 ELSE Len(logs))

FormsBegun == Cardinality({n \in 1..Len(logs) : logs[n] = FormHeader})

WarningsOf(k) ==
    Cardinality({n \in 1..Len(FormLogs(k)) : FormLogs(k)[n].kind = "warn"})

-----------------------------------------------------------------------------
(* Properties *)

\* C1: a record is in a form's output only if its check row has a non-empty J
\* cell that parses to a non-empty JSON object whose first value is a non-empty
\* array, the form's sample sheet can be read, is non-empty and has at least 3
\* columns, and some sample row's normalized column C equals the trimmed string
\* form of the array's first element; a row whose sample sheet is missing
\* contributes no record.
C1_RecordOnlyIfJoined ==
    InForm =>
        \A n \in 1..Len(dat_strings) :
            LET check_row == check_rows[dat_src[n]]
            IN /\ JHasTarget(check_row)
               /\ SampleUsable(CurrentName)
               /\ MatchesOf(SampleOf(CurrentName), TargetOf(check_row)) # {}

\* C2: whatever the check rows hold, process_business_data returns normally: no
\* failure raised inside it reaches main and aborts the job, so a job only ever
\* fails with one of the upstream schema failures.
C2_RowFailureNeverAborts ==
    pc = "failed" => \A n \in 1..Len(shown.errors) : shown.errors[n] \in SchemaErrors

\* C3: the aggregate archive is offered for download only after every form of
\* the catalog has been processed and packed and the aggregate has been built;
\* a job that aborts, also after earlier forms were packed, surfaces no
\* archive, only a single error message with the processing log; nothing is
\* shown while the job is running.
C3_DownloadOnlyWhenComplete ==
    /\ shown.downloads # <<>> =>
          /\ pc = "done"
          /\ Len(all_zip_bytes) = Len(business_list)
          /\ Len(shown.downloads) = 1
          /\ Len(shown.downloads[1]) = Len(business_list)
          /\ \A k \in 1..Len(business_list) :
                /\ shown.downloads[1][k].data = all_zip_bytes[k]
                /\ all_zip_bytes[k].name =
                      base_filename_of(credit_code,
                                       business_en_name_of(business_list[k]), data_date)
                          \o <<".", "z", "i", "p">>
          /\ shown.errors = <<>>
    /\ pc = "failed" =>
          /\ shown.downloads = <<>>
          /\ Len(shown.errors) = 1
          /\ shown.log = logs
          /\ logs[Len(logs)] = Log("error", shown.errors[1])
    /\ pc \notin {"done", "failed"} => shown = NoPage

\* C3 witness: a job that aborted while a later form was processed, after an
\* earlier form had been packed
C3_AbortAfterPacking == pc = "failed" /\ Len(all_zip_bytes) >= 1

\* C4: when the business sheet lacks the form name column or the English name
\* column, whatever its number of rows, read_business_info fails and the job
\* aborts before any artifact is produced; the empty list and the default
\* form arise only when both columns are present.
C4_MissingColumnAborts ==
    LET got == read_excel(wb, BusinessSheet)
    IN (got.ok /\ ~(has_col(got.df, FormNameCol) /\ has_col(got.df, FormEnNameCol))) =>
          /\ pc \in {"start", "task", "business", "failed"}
          /\ business_list = <<>>
          /\ all_zip_bytes = <<>>

\* C5: line 5 of every form's log file is the number of non-blank lines of
\* the paired data file.
C5_LogCountEqualsDataLines ==
    \A k \in 1..Len(all_zip_bytes) :
        /\ Len(LinesOf(LogFileOf(all_zip_bytes[k]))) >= 5
        /\ LinesOf(LogFileOf(all_zip_bytes[k]))[5] =
               int_str(NonBlankLines(DatFileOf(all_zip_bytes[k])))

\* C6: the forms the job processes are pairwise distinct in the (name, code)
\* pair used for the sample sheet and the archive name, and they are the
\* distinct pairs of the catalog rows in order of first occurrence.
C6_FormsDistinctAsUsed ==
    LET df == read_excel(wb, BusinessSheet).df
    IN (CatalogRead /\ ~df_empty(df)) =>
          /\ FormsDistinctAsUsed
          /\ [k \in 1..Len(business_list) |-> UsedPair(business_list[k])] =
                 drop_duplicates(
                     [k \in 1..Len(df.rows) |->
                         <<clean_cell_value(df.rows[k][col_index(df, FormNameCol)]),
                           clean_cell_value(df.rows[k][col_index(df, FormEnNameCol)])>>])

\* C7: a form whose name has no group of check rows gets zero records and
\* exactly one warning, its archive holds an empty data file (empty digest
\* line, size 0, count 0), and the job completes with one archive per form.
C7_NoGroupFormCompletes ==
    GroupsRead =>
        \A k \in 1..Len(business_list) :
            no_group(check_group, business_name_of(business_list[k])) =>
                /\ pc # "failed"
                /\ k <= FormsBegun => WarningsOf(k) = 1
                /\ k <= Len(all_zip_bytes) =>
                      /\ DatFileOf(all_zip_bytes[k]) = <<>>
                      /\ LinesOf(LogFileOf(all_zip_bytes[k]))[2] = <<>>
                      /\ LinesOf(LogFileOf(all_zip_bytes[k]))[3] = <<"0">>
                      /\ LinesOf(LogFileOf(all_zip_bytes[k]))[5] = <<"0">>
                /\ pc = "done" => Len(shown.downloads[1]) = Len(business_list)

\* C8: the records of a form are in the order of its check rows: every record
\* is the one its check row gives, each processed check row that gives a
\* record has exactly one, at most one record per row, and a record of an
\* earlier row precedes that of a later row.
C8_RecordsInRowOrder ==
    InForm =>
        /\ \A n \in 1..Len(dat_strings) :
              /\ dat_src[n] \in 1..(ri - 1)
              /\ process_row(wb, CurrentName, check_rows[dat_src[n]]).kind = "append"
              /\ dat_strings[n] = process_row(wb, CurrentName, check_rows[dat_src[n]]).rec
        /\ \A m, n \in 1..Len(dat_strings) : m < n => dat_src[m] < dat_src[n]
        /\ \A r \in 1..(ri - 1) :
              process_row(wb, CurrentName, check_rows[r]).kind = "append" =>
                  \E n \in 1..Len(dat_strings) : dat_src[n] = r

\* C8 witness: two records whose check rows have a skipped row between them
C8_SkippedRowBetween ==
    /\ pc = "pack"
    /\ \E n \in 1..(Len(dat_strings) - 1) :
          /\ dat_src[n + 1] > dat_src[n] + 1
          /\ dat_strings[n] # dat_strings[n + 1]

\* C9: when the target key of a check row matches more than one row of the
\* sample sheet, the record's payload is the "@&@"-joined normalized cells
\* from column D on of the first matching row in the sheet's order; no later
\* match and no helper column enters it.
C9_PayloadFromFirstMatch ==
    InForm =>
        \A n \in 1..Len(dat_strings) :
            LET check_row == check_rows[dat_src[n]]
                df == SampleOf(CurrentName)
            IN (/\ JHasTarget(check_row)
                /\ SampleUsable(CurrentName)
                /\ Cardinality(MatchesOf(df, TargetOf(check_row))) > 1) =>
                  LET first == CHOOSE m \in MatchesOf(df, TargetOf(check_row)) :
                                   \A o \in MatchesOf(df, TargetOf(check_row)) : m <= o
                  IN dat_strings[n] =
                         part1_of(check_row)
                             \o join(<<"@", "&", "@">>,
                                     [c \in 1..(Len(df.columns) - 3) |->
                                         clean_cell_value(df.rows[first][c + 3])])

\* C9 witness: a record of a check row whose key matches two sample rows with
\* different payloads
C9_SeveralMatches ==
    /\ pc = "pack"
    /\ \E n \in 1..Len(dat_strings) :
          /\ JHasTarget(check_rows[dat_src[n]])
          /\ SampleUsable(CurrentName)
          /\ \E a, b \in MatchesOf(SampleOf(CurrentName), TargetOf(check_rows[dat_src[n]])) :
                /\ a < b
                /\ part2_of(SampleOf(CurrentName).rows[a])
                       # part2_of(SampleOf(CurrentName).rows[b])

\* C10: in a successful run over a catalog whose forms are pairwise distinct,
\* the archive names written into the aggregate are pairwise distinct and the
\* aggregate holds one entry per form.
C10_ArchiveNamesDistinct ==
    (pc = "done" /\ FormsDistinctAsUsed) =>
        /\ Len(shown.downloads[1]) = Len(business_list)
        /\ \A a, b \in 1..Len(shown.downloads[1]) :
              a < b => shown.downloads[1][a].name # shown.downloads[1][b].name

=============================================================================
